---- MODULE Spec2Model ----
(***************************************************************************)
(* backupdb (src/backupdb.py): table-level backup of a MySQL database to   *)
(* one JSON file per table, and restore of those files into a destination  *)
(* database.                                                               *)
(*                                                                         *)
(* Data representation                                                     *)
(*   value   a tagged record [t, v]: t is the Python type of the value     *)
(*           ("null", "bool", "int", "float", "str", "datetime", "date",   *)
(*           and "list" and "dict" for what json.loads may return)         *)
(*   row     a Python dict, which keeps insertion order: a sequence of     *)
(*           entries [k, v] with pairwise different keys                   *)
(*   RowSet  a sequence of rows: the rows of a table, as a cursor returns  *)
(*           them and as insert_into_db inserts them                       *)
(*   text    the content of a JSON file, as its sequence of tokens         *)
(***************************************************************************)
EXTENDS Integers, Sequences, FiniteSets, TLC

\* ------------------------------------------------------------- bounds
\* Longest RowSet (rows of one table) the model draws.
MaxRows == 2
\* Longest configured table list.
MaxTables == 2

\* ------------------------------------------------------ python values
None == [t |-> "null", v |-> "None"]
BoolVal(b) == [t |-> "bool", v |-> b]
IntVal(n) == [t |-> "int", v |-> n]
FloatVal(x) == [t |-> "float", v |-> x]
StrVal(s) == [t |-> "str", v |-> s]
\* d = <<year, month, day, hour, minute, second>>
DateTimeVal(d) == [t |-> "datetime", v |-> d]
\* d = <<year, month, day>>: datetime.date, what the driver returns for a DATE column
DateVal(d) == [t |-> "date", v |-> d]

\* A list and a dict as values: what json.loads returns for an array and for an
\* object, at any depth
ListVal(items) == [t |-> "list", v |-> items]
DictVal(entries) == [t |-> "dict", v |-> entries]

Entry(key, value) == [k |-> key, v |-> value]

\* dict.keys() and dict.values(), in insertion order
Keys(row) == [i \in 1..Len(row) |-> row[i].k]
Values(row) == [i \in 1..Len(row) |-> row[i].v]
KeySet(row) == {row[i].k : i \in 1..Len(row)}
SeqToSet(s) == {s[i] : i \in 1..Len(s)}

\* A RowSet as the Python value it is, a list of dicts, and back
RowSetValue(rows) == ListVal([i \in 1..Len(rows) |-> DictVal(rows[i])])
RowsOf(value) == [i \in 1..Len(value.v) |-> value.v[i].v]

\* dict[key] = value: a new key goes last, a known key keeps its place
DictSet(row, key, value) ==
    IF key \in KeySet(row)
    THEN [i \in 1..Len(row) |-> IF row[i].k = key THEN Entry(key, value) ELSE row[i]]
    ELSE Append(row, Entry(key, value))

\* ------------------------------------------------------- user_encoder
\* %m, %d, %H, %M and %S: two digits
Pad2(n) == IF n < 10 THEN "0" \o ToString(n) ELSE ToString(n)
\* %Y: the digits of the year; the C library behind strftime does not pad a
\* year below 1000 (year 999 gives "999")
Year(n) == ToString(n)

\* obj.strftime('%Y-%m-%d %H:%M:%S')
strftime(d) ==
    Year(d[1]) \o "-" \o Pad2(d[2]) \o "-" \o Pad2(d[3]) \o " " \o
    Pad2(d[4]) \o ":" \o Pad2(d[5]) \o ":" \o Pad2(d[6])

\* The default= hook of json.dumps: the text of a datetime.datetime, and None
\* (the function falls off its end) for any other object.
user_encoder(obj) ==
    IF obj.t = "datetime" THEN StrVal(strftime(obj.v)) ELSE None

\* ------------------------------------------------- json.dumps / loads
Tok(kind, value) == [tok |-> kind, v |-> value]
Punct(kind) == Tok(kind, "")

NativeTypes == {"null", "bool", "int", "float", "str"}

\* One scalar as JSON: json's own types directly, any other object through default=
EncodeValue(obj) ==
    LET o == IF obj.t \in NativeTypes THEN obj ELSE user_encoder(obj)
    IN  CASE o.t = "null" -> Tok("null", "")
          [] o.t = "bool" -> IF o.v THEN Tok("true", "") ELSE Tok("false", "")
          [] o.t = "int" -> Tok("int", o.v)
          [] o.t = "float" -> Tok("float", o.v)
          [] o.t = "str" -> Tok("string", o.v)

RECURSIVE EncodeEntries(_, _)
EncodeEntries(row, i) ==
    IF i > Len(row) THEN <<>>
    ELSE (IF i > 1 THEN <<Punct(",")>> ELSE <<>>)
         \o <<Tok("string", row[i].k), Punct(":"), EncodeValue(row[i].v)>>
         \o EncodeEntries(row, i + 1)

EncodeRow(row) == <<Punct("{")>> \o EncodeEntries(row, 1) \o <<Punct("}")>>

RECURSIVE EncodeRows(_, _)
EncodeRows(data, i) ==
    IF i > Len(data) THEN <<>>
    ELSE (IF i > 1 THEN <<Punct(",")>> ELSE <<>>)
         \o EncodeRow(data[i]) \o EncodeRows(data, i + 1)

\* json.dumps(data, default=user_encoder) of a list of dicts
dumps(data) == <<Punct("[")>> \o EncodeRows(data, 1) \o <<Punct("]")>>

\* A parse result: the value read and the tokens after it, or a JSONDecodeError
Parsed(value, rest) == [ok |-> TRUE, val |-> value, rest |-> rest]
ParseError == [ok |-> FALSE, val |-> <<>>, rest |-> <<>>]

StartsWith(toks, kind) == toks # <<>> /\ Head(toks).tok = kind

\* F applied to the value of x, which is computed once
With(x, F(_)) == CHOOSE r \in {F(v) : v \in {x}} : TRUE

RECURSIVE DecodeValue(_)
RECURSIVE DecodeEntries(_, _)
RECURSIVE DecodeRow(_)
RECURSIVE DecodeRows(_, _)

\* The value at the head of the text: a scalar, an array or an object
DecodeValue(toks) ==
    IF toks = <<>> THEN ParseError
    ELSE LET h == Head(toks)
         IN  CASE h.tok = "null" -> Parsed(None, Tail(toks))
               [] h.tok = "true" -> Parsed(BoolVal(TRUE), Tail(toks))
               [] h.tok = "false" -> Parsed(BoolVal(FALSE), Tail(toks))
               [] h.tok = "int" -> Parsed(IntVal(h.v), Tail(toks))
               [] h.tok = "float" -> Parsed(FloatVal(h.v), Tail(toks))
               [] h.tok = "string" -> Parsed(StrVal(h.v), Tail(toks))
               [] h.tok = "{" -> DecodeRow(toks)
               [] h.tok = "[" ->
                    IF StartsWith(Tail(toks), "]")
                    THEN Parsed(ListVal(<<>>), Tail(Tail(toks)))
                    ELSE DecodeRows(Tail(toks), <<>>)
               [] OTHER -> ParseError

\* The members of an object after its "{" or a ",": "key": value, then "," or "}"
DecodeEntries(toks, row) ==
    IF ~(StartsWith(toks, "string") /\ StartsWith(Tail(toks), ":")) THEN ParseError
    ELSE With(DecodeValue(Tail(Tail(toks))), LAMBDA val :
            IF ~val.ok THEN ParseError
            ELSE IF StartsWith(val.rest, "}")
                 THEN Parsed(DictVal(DictSet(row, Head(toks).v, val.val)), Tail(val.rest))
            ELSE IF StartsWith(val.rest, ",")
                 THEN DecodeEntries(Tail(val.rest), DictSet(row, Head(toks).v, val.val))
            ELSE ParseError)

\* The object at the head of the text
DecodeRow(toks) ==
    IF ~StartsWith(toks, "{") THEN ParseError
    ELSE IF StartsWith(Tail(toks), "}") THEN Parsed(DictVal(<<>>), Tail(Tail(toks)))
    ELSE DecodeEntries(Tail(toks), <<>>)

\* The elements of an array after its "[" or a ",": a value, then "," or "]"
DecodeRows(toks, rows) ==
    With(DecodeValue(toks), LAMBDA row :
        IF ~row.ok THEN ParseError
        ELSE IF StartsWith(row.rest, "]")
             THEN Parsed(ListVal(Append(rows, row.val)), Tail(row.rest))
        ELSE IF StartsWith(row.rest, ",")
             THEN DecodeRows(Tail(row.rest), Append(rows, row.val))
        ELSE ParseError)

\* json.loads(content): the value the text holds; text after it is an error too.
\* [raised |-> "none", content |-> the value] or [raised |-> "JSONDecodeError"]
loads(text) ==
    With(DecodeValue(text),
         LAMBDA r : IF r.ok /\ r.rest = <<>>
                    THEN [raised |-> "none", content |-> r.val]
                    ELSE [raised |-> "JSONDecodeError", content |-> None])

\* ---------------------------------------------------------- reconcile
\* "`" (a TLA+ string cannot hold the character itself)
Backtick == "BACKTICK"
\* f'`{key}`': the three pieces of the quoted identifier
Quoted(key) == <<Backtick, key, Backtick>>

\* RestoreAction.get_keys, the exception it raises on a content that is not a
\* list of dicts: len(content) of a value without a length, content[0] of a
\* dict (no JSON object has the key 0), .keys() of a value that is not a dict
get_keys_raises(content) ==
    IF content.t \notin {"str", "list", "dict"} THEN "TypeError"
    ELSE IF content.t = "str" THEN (IF content.v = "" THEN "none" ELSE "AttributeError")
    ELSE IF content.v = <<>> THEN "none"
    ELSE IF content.t = "dict" THEN "KeyError"
    ELSE IF content.v[1].t # "dict" THEN "AttributeError"
    ELSE "none"

\* RestoreAction.get_keys when it returns: the keys of the first row, quoted
\* unless simple, and [] for an empty content
get_keys(content, simple) ==
    IF get_keys_raises(content) = "none" /\ content.t = "list" /\ content.v # <<>>
    THEN [i \in 1..Len(content.v[1].v) |->
             IF ~simple THEN Quoted(content.v[1].v[i].k) ELSE content.v[1].v[i].k]
    ELSE <<>>

\* row.pop(rs), the exception it raises: KeyError when the dict lacks the key,
\* TypeError for a list (list.pop takes an index), AttributeError for a value
\* that has no pop
PopRaises(row, rs) ==
    IF row.t = "dict" THEN (IF rs \in KeySet(row.v) THEN "none" ELSE "KeyError")
    ELSE IF row.t = "list" THEN "TypeError"
    ELSE "AttributeError"
\* row.pop(rs) as it would be if it cut the row at the key
PopTruncate(row, rs) ==
    DictVal(SubSeq(row.v, 1, (CHOOSE j \in 1..Len(row.v) : row.v[j].k = rs) - 1))
\* row.pop(rs) when it returns: the dict without the key
Pop(row, rs) == DictVal(SelectSeq(row.v, LAMBDA e : e.k # rs))

\* for row in content: row.pop(rs), from row i on. The rows are popped in place:
\* when a row raises, the rows before it have lost the key already.
RECURSIVE PopFromRows(_, _, _)
PopFromRows(content, rs, i) ==
    IF i > Len(content.v) THEN [raised |-> "none", content |-> content]
    ELSE IF PopRaises(content.v[i], rs) # "none"
         THEN [raised |-> PopRaises(content.v[i], rs), content |-> content]
    ELSE PopFromRows([content EXCEPT !.v[i] = Pop(content.v[i], rs)], rs, i + 1)

\* The orders in which a for loop may iterate over a set of field names: the
\* order of a set of strings follows their hashes, which differ from one run of
\* the interpreter to the next
Orders(result_set) ==
    {order \in [1..Cardinality(result_set) -> result_set] :
        \A i, j \in 1..Cardinality(result_set) : order[i] = order[j] => i = j}

\* The loop over result_set as it would be if it ended after its first turn
PopFieldsOnce(content, order) ==
    IF order = <<>> THEN [raised |-> "none", content |-> content]
    ELSE PopFromRows(content, Head(order), 1)

\* for rs in result_set: ..., in the order the set is iterated in
RECURSIVE PopFields(_, _)
PopFields(content, order) ==
    IF order = <<>> THEN [raised |-> "none", content |-> content]
    ELSE With(PopFromRows(content, Head(order), 1), LAMBDA popped :
            IF popped.raised # "none" THEN popped
            ELSE PopFields(popped.content, Tail(order)))

\* compare_content as it would be if it returned the content as loaded
compare_content_keep(content, db_structure) ==
    {[raised |-> "none", content |-> content]}

\* RestoreAction.compare_content, given what get_table_structure returns, for
\* each order the loop over result_set may take: [raised |-> "none", content |->
\* the content returned], or the exception raised and what is then left of the
\* value the caller passed. get_keys raises before get_table_structure is called.
compare_content_outcomes(content, db_structure) ==
    LET keys == get_keys(content, TRUE)
        result_set == SeqToSet(keys) \ SeqToSet(db_structure)
    IN  IF get_keys_raises(content) # "none"
        THEN {[raised |-> get_keys_raises(content), content |-> content]}
        ELSE {PopFields(content, order) : order \in Orders(result_set)}

\* RestoreAction.compare_content when it returns: the content returned. Whether
\* it returns, and what, is the same in every order of the loop; the exception
\* raised by a content that mixes dicts and other values is not.
compare_content(content, db_structure) ==
    With(CHOOSE outcome \in compare_content_outcomes(content, db_structure) : TRUE,
         LAMBDA outcome :
            IF outcome.raised # "none"
            THEN [raised |-> "raised", content |-> None]
            ELSE outcome)

\* insert_into_db, values = [list(row.values()) for row in content]: the
\* exception a content raises that holds a value which is not a dict
values_raises(content) ==
    IF content.t = "list" /\ \E i \in 1..Len(content.v) : content.v[i].t # "dict"
    THEN "AttributeError"
    ELSE "none"

\* ------------------------------------------------------ configuration
TableNames == {"users", "logs"}

\* The configured table lists, and the text of the option that holds each: one
\* table per line, after the empty first line of a multi-line option.
TableLists == UNION {[1..n -> TableNames] : n \in 0..MaxTables}
TablesEntry(list) == IF Len(list) = 1 THEN list ELSE <<"">> \o list

\* The file named by -f: missing, a directory, not parseable, or a file with
\* some of the sections backup, restore and tables
NoConfig(kind) == [kind |-> kind, sections |-> {}, tables_entry |-> <<>>]
ConfigFiles ==
    {NoConfig("missing"), NoConfig("dir"), NoConfig("malformed")}
    \cup {[kind |-> "file", sections |-> s, tables_entry |-> <<>>] :
             s \in SUBSET {"backup", "restore"}}
    \cup {[kind |-> "file", sections |-> s \cup {"tables"}, tables_entry |-> TablesEntry(l)] :
             s \in SUBSET {"backup", "restore"}, l \in TableLists}

\* Configuration.tables: the lines of the option without the empty ones
tables(config) == SelectSeq(config.tables_entry, LAMBDA x : x # "")

\* ------------------------------------------------------------ databases
Name(i) == IF i = 1 THEN "Ann" ELSE "Bo"
\* Row i of a source table with the columns id, name and at (a DATETIME)
SourceRow(i) ==
    <<Entry("id", IntVal(i)), Entry("name", StrVal(Name(i))),
      Entry("at", DateTimeVal(<<2024, 1, i, 9, 30, i>>))>>

NoTable == [exists |-> FALSE, columns |-> <<>>, rows |-> <<>>]
Table(columns, rows) == [exists |-> TRUE, columns |-> columns, rows |-> rows]

\* A source table: absent, or holding 0..MaxRows rows
SourceTables ==
    {NoTable} \cup {Table(<<"id", "name", "at">>, [i \in 1..n |-> SourceRow(i)]) :
                       n \in 0..MaxRows}

\* A destination table: absent, empty, or already holding the row with id 1
DestinationTables ==
    {NoTable,
     Table(<<"id", "name">>, <<>>),
     Table(<<"id", "name">>, <<<<Entry("id", IntVal(1)), Entry("name", StrVal("Ann"))>>>>),
     Table(<<"id", "name", "extra", "at">>, <<>>)}

\* ------------------------------------------------------------ artifacts
Person(id, name, extra) ==
    <<Entry("id", IntVal(id)), Entry("name", StrVal(name)), Entry("extra", StrVal(extra))>>
Ann == Person(1, "Ann", "x")
Bo == Person(2, "Bo", "y")
AnnPlain == <<Entry("id", IntVal(1)), Entry("name", StrVal("Ann"))>>
BoPlain == <<Entry("id", IntVal(2)), Entry("name", StrVal("Bo"))>>
BoSwapped == <<Entry("name", StrVal("Bo")), Entry("id", IntVal(2)), Entry("extra", StrVal("y"))>>
\* A name longer than the destination's name column
Bartholomew == Person(2, "Bartholomew", "y")
OnlyExtra == <<Entry("extra", StrVal("x"))>>
\* An id that is not an integer
Al == <<Entry("name", StrVal("Al")), Entry("id", StrVal("x"))>>
Cy == <<Entry("name", StrVal("Cy")), Entry("id", IntVal(3))>>

\* The RowSets found in the artifacts of a restore-only run (written by an
\* earlier backup, possibly edited since)
ArtifactRowSets ==
    {<<>>, <<Ann, Bo>>, <<AnnPlain, BoPlain>>, <<Ann, BoPlain>>, <<BoPlain, Ann>>,
     <<Ann, BoSwapped>>, <<Bo, Ann, Bo>>, <<Bartholomew, Ann>>, <<OnlyExtra>>,
     <<Al, Cy>>}

NoFile == [kind |-> "missing", text |-> <<>>]
Directory == [kind |-> "dir", text |-> <<>>]
File(text) == [kind |-> "file", text |-> text]
\* A file cut short: all of its text but the last token
Truncated(text) == SubSeq(text, 1, Len(text) - 1)

\* Texts that are JSON and not a list of rows of scalars, as a file written by
\* another hand may hold:
\*   {}
\*   "ab"
\*   null
\*   {"a": "b"}
\*   [{"id": 1, "name": {"first": "Ann"}}]
\*   [{"id": 2, "name": "Bo"}, "x"]
\*   [{"id": 1, "extra": "y"}, "x"]
EmptyObject == <<Punct("{"), Punct("}")>>
BareString == <<Tok("string", "ab")>>
BareNull == <<Tok("null", "")>>
BareObject == <<Punct("{"), Tok("string", "a"), Punct(":"), Tok("string", "b"), Punct("}")>>
NestedName ==
    <<Punct("["), Punct("{"), Tok("string", "id"), Punct(":"), Tok("int", 1), Punct(","),
      Tok("string", "name"), Punct(":"),
      Punct("{"), Tok("string", "first"), Punct(":"), Tok("string", "Ann"), Punct("}"),
      Punct("}"), Punct("]")>>
RowThenString ==
    <<Punct("[")>> \o EncodeRow(BoPlain) \o <<Punct(","), Tok("string", "x"), Punct("]")>>
ExtraRowThenString ==
    <<Punct("[")>> \o EncodeRow(<<Entry("id", IntVal(1)), Entry("extra", StrVal("y"))>>)
                  \o <<Punct(","), Tok("string", "x"), Punct("]")>>
ArtifactTexts ==
    {EmptyObject, BareString, BareNull, BareObject, NestedName, RowThenString,
     ExtraRowThenString}

Artifacts ==
    {NoFile, Directory, File(Truncated(dumps(<<Ann, Bo>>)))}
    \cup {File(dumps(R)) : R \in ArtifactRowSets}
    \cup {File(text) : text \in ArtifactTexts}

\* ---------------------------------------------------------------- state
VARIABLES
    pc,          \* where the run is: the next step of Application.__init__
    error,       \* the exit message or the exception that ended the run
    arguments,   \* the parsed command line and what the paths it names are
    config,      \* the configuration file
    files,       \* the directory: table name -> the artifact create_file_name names
    src_db,      \* the source database: table name -> table
    dest_db,     \* the destination database: table name -> table (committed rows)
    connects,    \* the calls of mysql.connector.connect so far
    fk_checks,   \* the destination session's foreign_key_checks
    txn,         \* rows inserted on the destination connection and not yet committed
    statements,  \* what was issued on the connections, in order
    reports,     \* warnings, errors and prints, in order
    ti,          \* index of the table the loop is at
    content,     \* insert_into_db: the rows being inserted
    fields,      \* insert_into_db: the field list of the statement
    ri,          \* insert_into_db: index of the row the loop is at
    outcomes,    \* per configured table of the restore, how its iteration ended
    results,     \* insert_into_db: what execute did for each row so far
    rc_pc, rc_input, rc_content, rc_structure, rc_once,   \* reconcile alone
    st_pc, st_table, st_rows, st_files, st_loaded         \* the record store alone

runvars == <<pc, error, arguments, config, files, src_db, dest_db, connects, fk_checks,
             txn, statements, reports, ti, content, fields, ri, outcomes, results>>
rcvars == <<rc_pc, rc_input, rc_content, rc_structure, rc_once>>
stvars == <<st_pc, st_table, st_rows, st_files, st_loaded>>
vars == <<runvars, rcvars, stvars>>

\* ----------------------------------------------------------- statements
\* args: the statement text and the parameters of an INSERT
StmtWith(conn, i, op, args) == [conn |-> conn, ti |-> i, op |-> op, args |-> args]
Stmt(conn, i, op) == StmtWith(conn, i, op, <<>>)
\* Cursor.__enter__: conn.cursor(**kwargs)
CursorEnter(conn, i) == <<Stmt(conn, i, "cursor")>>
\* Cursor.__exit__ as it would be without self.cur.close()
CursorExitOpen(conn, i) == <<Stmt(conn, i, "commit")>>

\* Cursor.__exit__ as it would be without self.conn.commit()
CursorExitUncommitted(conn, i) == <<Stmt(conn, i, "close")>>

\* Cursor.__exit__, on a normal exit and on an exception alike: commit, then close
CursorExit(conn, i) == <<Stmt(conn, i, "commit"), Stmt(conn, i, "close")>>
\* One unit of work running a single statement
UnitOfWork(conn, i, op) == CursorEnter(conn, i) \o <<Stmt(conn, i, op)>> \o CursorExit(conn, i)

Report(i, kind, what) == [ti |-> i, kind |-> kind, what |-> what]

\* conn.commit(): the pending rows of each table join its committed rows
Pending(t) == [i \in 1..Len(SelectSeq(txn, LAMBDA p : p.table = t)) |->
                  SelectSeq(txn, LAMBDA p : p.table = t)[i].row]
Committed == [t \in TableNames |->
                 [dest_db[t] EXCEPT !.rows = dest_db[t].rows \o Pending(t)]]

\* Action.create_file_name: os.path.join(self.output, f'{table_name}.json'), the
\* path of the table's artifact; files maps the table name to what is at that path
create_file_name(table_name) == <<table_name, ".json">>

\* file_exists as it would be with os.path.exists alone
file_exists_any(dir, table_name) == dir[table_name].kind # "missing"

\* RestoreAction.file_exists
file_exists(dir, table_name) ==
    dir[table_name].kind # "missing" /\ dir[table_name].kind = "file"

\* table_exists as it would be if it took any answer of SHOW TABLES for a row
table_exists_always(table_name) == TRUE

\* RestoreAction.table_exists: SHOW TABLES LIKE finds a row
table_exists(table_name) == dest_db[table_name].exists

\* RestoreAction.get_table_structure: the first field of each row of DESC
get_table_structure(table) == dest_db[table].columns

\* RestoreAction.load_json_file
load_json_file(dir, table_name) == loads(dir[table_name].text)

\* save_as_json as it would be if it wrote nothing and raised nothing
save_as_json_unwritten(dir, table_name, data) == [raised |-> "none", files |-> dir]

\* BackupAction.save_as_json: the directory after the write, or the error of open()
save_as_json(dir, table_name, data) ==
    LET result == dumps(data)
    IN  IF dir[table_name].kind = "dir"
        THEN [raised |-> "IsADirectoryError", files |-> dir]
        ELSE [raised |-> "none", files |-> [dir EXCEPT ![table_name] = File(result)]]

\* --------------------------------------------------------------- INSERT
\* The statement text of insert_into_db
Query(table, field_list) ==
    [table_name |-> table, fields |-> field_list,
     values |-> [i \in 1..Len(field_list) |-> "%s"]]

\* The names too long for the destination's name column
TooLong == {"Bartholomew"}

IdsOf(rows) ==
    UNION {{rows[i][j].v : j \in {c \in 1..Len(rows[i]) : rows[i][c].k = "id"}} :
              i \in 1..Len(rows)}

\* The row an INSERT stores: column i of the statement gets parameter i
StoredRow(query, value) ==
    [i \in 1..Len(query.fields) |-> Entry(query.fields[i][2], value[i])]

\* cursor.execute(query, value) on the destination: "ok", or the class of the
\* error raised. A parameter that is a list or a dict has no MySQL type: the
\* driver raises before it sends the statement. id is the primary key, an
\* integer; name is a short string.
Execute(query, value) ==
    LET row == StoredRow(query, value)
        columns == dest_db[query.table_name].columns
        present == IdsOf(dest_db[query.table_name].rows \o Pending(query.table_name))
    IN  IF \E i \in 1..Len(value) : value[i].t \in {"list", "dict"}
        THEN "ProgrammingError"
        ELSE IF Len(value) # Len(query.values) THEN "ProgrammingError"
        ELSE IF \E i \in 1..Len(row) : row[i].k \notin SeqToSet(columns)
             THEN "ProgrammingError"
        ELSE IF \E i \in 1..Len(row) : row[i].k = "id" /\ row[i].v.t # "int"
             THEN "DatabaseError"
        ELSE IF \E i \in 1..Len(row) :
                    row[i].k = "name" /\ row[i].v.t = "str" /\ row[i].v.v \in TooLong
             THEN "DataError"
        ELSE IF \E i \in 1..Len(row) : row[i].k = "id" /\ row[i].v \in present
             THEN "IntegrityError"
        ELSE "ok"

\* ----------------------------------------------------------------- Init
NoRows == [t \in TableNames |-> NoTable]
NoFiles == [t \in TableNames |-> NoFile]

\* Whether the run gets as far as the table loops, and to table t in them
Preflight(a, c) ==
    /\ a.backup \/ a.restore
    /\ a.directory = "dir"
    /\ c.kind = "file"
    /\ c.sections = {"backup", "restore", "tables"}
Configured(a, c, t) == Preflight(a, c) /\ t \in SeqToSet(tables(c))

\* The command line, the configuration file, the directory and the two databases
\* as the run finds them. What the run cannot read is left out: the tables that
\* are not configured, the database of a side that is not selected, and the
\* content of an artifact that the backup of the same run replaces before the
\* restore reads it.
RunInit ==
    /\ pc = "install_arguments_parser"
    /\ error = ""
    /\ arguments \in [backup : BOOLEAN, restore : BOOLEAN, directory : {"dir", "missing"}]
    /\ config \in ConfigFiles
    /\ files \in {f \in [TableNames -> Artifacts] :
                    \A t \in TableNames :
                        /\ ~Configured(arguments, config, t) => f[t] = NoFile
                        /\ arguments.backup => f[t] \in {NoFile, Directory}}
    /\ src_db \in {d \in [TableNames -> SourceTables] :
                     \A t \in TableNames :
                        ~(Configured(arguments, config, t) /\ arguments.backup)
                            => d[t] = NoTable}
    /\ dest_db \in {d \in [TableNames -> DestinationTables] :
                      \A t \in TableNames :
                        ~(Configured(arguments, config, t) /\ arguments.restore)
                            => d[t] = NoTable}
    /\ connects = <<>>
    /\ fk_checks = TRUE
    /\ txn = <<>>
    /\ statements = <<>>
    /\ reports = <<>>
    /\ ti = 0
    /\ content = <<>>
    /\ fields = <<>>
    /\ ri = 0
    /\ outcomes = <<>>
    /\ results = <<>>

\* The variables of a part of the model that a specification does not exercise
RunIdle ==
    /\ pc = "idle"
    /\ error = ""
    /\ arguments = [backup |-> FALSE, restore |-> FALSE, directory |-> "missing"]
    /\ config = NoConfig("missing")
    /\ files = NoFiles
    /\ src_db = NoRows
    /\ dest_db = NoRows
    /\ connects = <<>>
    /\ fk_checks = TRUE
    /\ txn = <<>>
    /\ statements = <<>>
    /\ reports = <<>>
    /\ ti = 0
    /\ content = <<>>
    /\ fields = <<>>
    /\ ri = 0
    /\ outcomes = <<>>
    /\ results = <<>>
RcIdle ==
    /\ rc_pc = "idle"
    /\ rc_input = <<>>
    /\ rc_content = <<>>
    /\ rc_structure = <<>>
    /\ rc_once = <<>>
StIdle ==
    /\ st_pc = "idle"
    /\ st_table = ""
    /\ st_rows = <<>>
    /\ st_files = NoFiles
    /\ st_loaded = None

Init == RunInit /\ RcIdle /\ StIdle

\* ------------------------------------------------------------- start-up
\* sys.exit(message)
Exit(message) == pc' = "exit" /\ error' = message
\* an exception nothing catches
Raise(exception) == pc' = "raised" /\ error' = exception

\* Application.install_arguments_parser, after parse_args
install_arguments_parser ==
    /\ pc = "install_arguments_parser"
    /\ IF ~(arguments.backup \/ arguments.restore)
       THEN Exit("An action is required. Either backup or restore.")
       ELSE IF arguments.directory # "dir"
       THEN Exit("The destination directory doesn't exist")
       ELSE pc' = "Configuration" /\ error' = error
    /\ UNCHANGED <<arguments, config, files, src_db, dest_db, connects, fk_checks, txn,
                   statements, reports, ti, content, fields, ri, outcomes, results>>
    /\ UNCHANGED <<rcvars, stvars>>

\* Configuration.__init__: read_configuration_file
read_configuration_file ==
    /\ pc = "Configuration"
    /\ IF config.kind = "missing"
       THEN Exit("The configuration file don't exists")
       ELSE IF config.kind # "file" /\ config.kind # "malformed"
       THEN Exit("The configuration file is not a file")
       ELSE IF config.kind = "malformed"
       THEN Raise("configparser.Error")
       ELSE pc' = "source_connection" /\ error' = error
    /\ UNCHANGED <<arguments, config, files, src_db, dest_db, connects, fk_checks, txn,
                   statements, reports, ti, content, fields, ri, outcomes, results>>
    /\ UNCHANGED <<rcvars, stvars>>

\* Application.create_databases_connection(info, creating), where info is the
\* section's DatabaseEntry, read before the call: connects when creating, and the
\* connection is made (ok) or refused
create_databases_connection(side, section, creating, next) ==
    /\ IF section \notin config.sections
       THEN Raise("KeyError: " \o section) /\ connects' = connects
       ELSE IF creating
       THEN \E ok \in BOOLEAN :
               /\ connects' = Append(connects, side)
               /\ IF ok THEN pc' = next /\ error' = error
                        ELSE Raise("InterfaceError")
       ELSE pc' = next /\ error' = error /\ connects' = connects
    /\ UNCHANGED <<arguments, config, files, src_db, dest_db, fk_checks, txn,
                   statements, reports, ti, content, fields, ri, outcomes, results>>
    /\ UNCHANGED <<rcvars, stvars>>

\* self.db_src = self.create_databases_connection(self.config.source_database, ...)
source_connection ==
    /\ pc = "source_connection"
    /\ create_databases_connection("src", "backup", arguments.backup,
                                   "destination_connection")

\* self.db_dest = self.create_databases_connection(self.config.destination_database, ...)
destination_connection ==
    /\ pc = "destination_connection"
    /\ create_databases_connection("dest", "restore", arguments.restore,
                                   "backup_if_required")

\* --------------------------------------------------------------- backup
HasCommit(stmts) == \E i \in 1..Len(stmts) : stmts[i].op = "commit"

\* Application.backup_if_required, up to the first table: BackupAction is built
\* from config.tables, and process_action enters its cursor
backup_if_required ==
    /\ pc = "backup_if_required"
    /\ IF ~arguments.backup
       THEN pc' = "restore_if_required" /\ UNCHANGED <<error, statements, ti>>
       ELSE IF "tables" \notin config.sections
       THEN Raise("NoSectionError: tables") /\ UNCHANGED <<statements, ti>>
       ELSE /\ pc' = "backup"
            /\ ti' = 1
            /\ statements' = statements \o CursorEnter("src", 0)
            /\ error' = error
    /\ UNCHANGED <<arguments, config, files, src_db, dest_db, connects, fk_checks, txn,
                   reports, content, fields, ri, outcomes, results>>
    /\ UNCHANGED <<rcvars, stvars>>

\* BackupAction.process_action: one turn of the loop over the tables. An error
\* leaves the with block through Cursor.__exit__ and ends the run.
BackupTable ==
    /\ pc = "backup"
    /\ ti <= Len(tables(config))
    /\ LET table == tables(config)[ti]
           select == <<Stmt("src", ti, "SELECT")>>
           rows == src_db[table].rows
           saved == save_as_json(files, table, rows)
       IN  IF ~src_db[table].exists
           THEN /\ Raise("ProgrammingError")
                /\ statements' = statements \o select \o CursorExit("src", ti)
                /\ UNCHANGED <<files, ti>>
           ELSE IF saved.raised # "none"
           THEN /\ Raise(saved.raised)
                /\ statements' = statements \o select \o CursorExit("src", ti)
                /\ UNCHANGED <<files, ti>>
           ELSE /\ files' = saved.files
                /\ statements' = statements \o select
                /\ ti' = ti + 1
                /\ UNCHANGED <<pc, error>>
    /\ UNCHANGED <<arguments, config, src_db, dest_db, connects, fk_checks, txn,
                   reports, content, fields, ri, outcomes, results>>
    /\ UNCHANGED <<rcvars, stvars>>

\* BackupAction.process_action: the loop is over, the with block ends
BackupEnd ==
    /\ pc = "backup"
    /\ ti > Len(tables(config))
    /\ pc' = "restore_if_required"
    /\ statements' = statements \o CursorExit("src", 0)
    /\ ti' = 0
    /\ UNCHANGED <<error, arguments, config, files, src_db, dest_db, connects, fk_checks,
                   txn, reports, content, fields, ri, outcomes, results>>
    /\ UNCHANGED <<rcvars, stvars>>

\* -------------------------------------------------------------- restore
\* Application.restore_if_required, up to the first table
restore_if_required ==
    /\ pc = "restore_if_required"
    /\ IF ~arguments.restore
       THEN pc' = "done" /\ UNCHANGED <<error, ti>>
       ELSE IF "tables" \notin config.sections
       THEN Raise("NoSectionError: tables") /\ UNCHANGED ti
       ELSE pc' = "restore" /\ ti' = 1 /\ error' = error
    /\ UNCHANGED <<arguments, config, files, src_db, dest_db, connects, fk_checks, txn,
                   statements, reports, content, fields, ri, outcomes, results>>
    /\ UNCHANGED <<rcvars, stvars>>

\* process_action as it would be without its test of the field list
NoFieldsNever(field_list) == FALSE

\* if not fields: the field list is empty
NoFields(field_list) == Len(field_list) = 0

\* insert_into_db as it would be without its SET statement
KeepForeignKeyChecks(conn, i) == <<>>

\* insert_into_db: cursor.execute('SET foreign_key_checks = 0;')
DisableForeignKeyChecks(conn, i) == <<Stmt(conn, i, "SET foreign_key_checks = 0")>>
\* foreign_key_checks as it would be if each cursor began with the default
ForeignKeyChecksPerCursor(before, stmts) ==
    ~\E k \in 1..Len(stmts) : stmts[k].op = "SET foreign_key_checks = 0"

\* The session's foreign_key_checks after the statements of a turn: the variable
\* belongs to the connection, and the program never sets it to 1
ForeignKeyChecks(before, stmts) ==
    before /\ ~\E k \in 1..Len(stmts) : stmts[k].op = "SET foreign_key_checks = 0"

\* How one turn of RestoreAction.process_action goes, up to the insert loop
Turn(next, stmts, msgs, exception, rows, field_list) ==
    [next |-> next, stmts |-> stmts, msgs |-> msgs, exception |-> exception,
     content |-> rows, fields |-> field_list]

\* RestoreAction.process_action for table number i, up to the insert loop:
\* skipped (continue), ended by an exception, or entering insert_into_db
RestoreTurn(table, i, compared) ==
    LET shown == UnitOfWork("dest", i, "SHOW TABLES")
        described == UnitOfWork("dest", i, "DESC")
        loaded == load_json_file(files, table)
        db_structure == get_table_structure(table)
        result_set == SeqToSet(get_keys(loaded.content, TRUE)) \ SeqToSet(db_structure)
        diff == IF result_set # {} THEN <<Report(i, "diff", result_set)>> ELSE <<>>
        field_list == get_keys(compared.content, FALSE)
    IN  IF ~file_exists(files, table)
        THEN Turn("skip", <<>>, <<Report(i, "error", "file doesn't exist")>>, "", <<>>, <<>>)
        ELSE IF ~table_exists(table)
        THEN Turn("skip", shown, <<Report(i, "warning", "table not found")>>, "", <<>>, <<>>)
        ELSE IF loaded.raised # "none"
        THEN Turn("raise", shown, <<>>, loaded.raised, <<>>, <<>>)
        ELSE IF get_keys_raises(loaded.content) # "none"
        THEN Turn("raise", shown, <<>>, get_keys_raises(loaded.content), <<>>, <<>>)
        ELSE IF compared.raised # "none"
        THEN Turn("raise", shown \o described, diff, compared.raised, <<>>, <<>>)
        ELSE IF NoFields(field_list)
        THEN Turn("skip", shown \o described,
                  diff \o <<Report(i, "warning", "table is empty")>>, "", <<>>, <<>>)
        ELSE IF values_raises(compared.content) # "none"
        THEN Turn("raise", shown \o described, diff, values_raises(compared.content),
                  <<>>, <<>>)
        ELSE Turn("insert",
                  shown \o described \o CursorEnter("dest", i)
                        \o DisableForeignKeyChecks("dest", i),
                  diff, "", RowsOf(compared.content), field_list)

\* continue as it would be if it left the loop over the tables
Break(i) == Len(tables(config)) + 1

\* continue: the for loop of process_action goes to the next table
Continue(i) == i + 1

\* RestoreAction.process_action: one turn of the loop over the tables, and the
\* start of insert_into_db when the turn gets there
RestoreTable ==
    /\ pc = "restore"
    /\ ti <= Len(tables(config))
    /\ \E compared \in compare_content_outcomes(
                          load_json_file(files, tables(config)[ti]).content,
                          get_table_structure(tables(config)[ti])) :
       LET turn == RestoreTurn(tables(config)[ti], ti, compared)
       IN  /\ statements' = statements \o turn.stmts
           /\ reports' = reports \o turn.msgs
           /\ IF HasCommit(turn.stmts)
              THEN dest_db' = Committed /\ txn' = <<>>
              ELSE UNCHANGED <<dest_db, txn>>
           /\ fk_checks' = ForeignKeyChecks(fk_checks, turn.stmts)
           /\ IF turn.next = "skip"
              THEN /\ outcomes' = Append(outcomes, "SKIPPED")
                   /\ ti' = Continue(ti)
                   /\ UNCHANGED <<pc, error, content, fields, ri>>
              ELSE IF turn.next = "raise"
              THEN /\ Raise(turn.exception)
                   /\ UNCHANGED <<outcomes, ti, content, fields, ri>>
              ELSE /\ pc' = "insert"
                   /\ content' = turn.content
                   /\ fields' = turn.fields
                   /\ ri' = 1
                   /\ UNCHANGED <<error, outcomes, ti>>
    /\ UNCHANGED <<arguments, config, files, src_db, connects, results>>
    /\ UNCHANGED <<rcvars, stvars>>

\* insert_into_db as it would be with an except clause for every driver error
RowErrorsAny == {"DataError", "IntegrityError", "ProgrammingError", "DatabaseError"}

\* insert_into_db as it would be without its except clause for DataError
RowErrorsIntegrityOnly == {"IntegrityError"}
RowErrors == {"DataError", "IntegrityError"}

\* RestoreAction.insert_into_db: one turn of the loop over the rows. DataError
\* and IntegrityError are printed and the loop goes on; any other error leaves
\* the with block through Cursor.__exit__ and ends the run.
InsertRow ==
    /\ pc = "insert"
    /\ ri <= Len(content)
    /\ LET table == tables(config)[ti]
           query == Query(table, fields)
           value == Values(content[ri])
           result == Execute(query, value)
           insert == <<StmtWith("dest", ti, "INSERT", <<query, value>>)>>
           pending == Append(txn, [table |-> table, row |-> StoredRow(query, value)])
       IN  IF result = "ok"
           THEN /\ txn' = pending
                /\ statements' = statements \o insert
                /\ ri' = ri + 1
                /\ UNCHANGED <<pc, error, reports, dest_db>>
           ELSE IF result \in RowErrors
           THEN /\ reports' = Append(reports, Report(ti, result, value[1]))
                /\ statements' = statements \o insert
                /\ ri' = ri + 1
                /\ UNCHANGED <<pc, error, txn, dest_db>>
           ELSE /\ Raise(result)
                /\ statements' = statements \o insert \o CursorExit("dest", ti)
                /\ IF HasCommit(CursorExit("dest", ti))
                   THEN dest_db' = Committed /\ txn' = <<>>
                   ELSE UNCHANGED <<dest_db, txn>>
                /\ UNCHANGED <<reports, ri>>
    /\ results' = Append(results, Execute(Query(tables(config)[ti], fields),
                                          Values(content[ri])))
    /\ UNCHANGED <<arguments, config, files, src_db, connects, fk_checks, ti, content,
                   fields, outcomes>>
    /\ UNCHANGED <<rcvars, stvars>>

\* RestoreAction.insert_into_db: the loop is over, the with block ends, and
\* process_action goes to the next table
InsertEnd ==
    /\ pc = "insert"
    /\ ri > Len(content)
    /\ pc' = "restore"
    /\ statements' = statements \o CursorExit("dest", ti)
    /\ IF HasCommit(CursorExit("dest", ti))
       THEN dest_db' = Committed /\ txn' = <<>>
       ELSE UNCHANGED <<dest_db, txn>>
    /\ outcomes' = Append(outcomes, "DONE")
    /\ ti' = ti + 1
    /\ content' = <<>>
    /\ fields' = <<>>
    /\ ri' = 0
    /\ results' = <<>>
    /\ UNCHANGED <<error, arguments, config, files, src_db, connects, fk_checks, reports>>
    /\ UNCHANGED <<rcvars, stvars>>

\* RestoreAction.process_action: the loop over the tables is over
RestoreEnd ==
    /\ pc = "restore"
    /\ ti > Len(tables(config))
    /\ pc' = "done"
    /\ UNCHANGED <<error, arguments, config, files, src_db, dest_db, connects, fk_checks,
                   txn, statements, reports, ti, content, fields, ri, outcomes, results>>
    /\ UNCHANGED <<rcvars, stvars>>

Next ==
    \/ install_arguments_parser
    \/ read_configuration_file
    \/ source_connection
    \/ destination_connection
    \/ backup_if_required
    \/ BackupTable
    \/ BackupEnd
    \/ restore_if_required
    \/ RestoreTable
    \/ InsertRow
    \/ InsertEnd
    \/ RestoreEnd

\* The whole run: Application.__init__ on one command line and one environment
Spec == Init /\ [][Next]_vars

\* ------------------------------------------------------ reconcile alone
\* compare_content on every RowSet of up to MaxRows rows whose rows hold some of
\* the fields id, name and extra in some order, against a destination structure
RcKeys == {"id", "name", "extra"}
RcValues(key) ==
    IF key = "id" THEN {IntVal(1), IntVal(2)}
    ELSE IF key = "name" THEN {StrVal("Ann")}
    ELSE {StrVal("x")}
RcKeySeqs ==
    {k \in UNION {[1..n -> RcKeys] : n \in 0..Cardinality(RcKeys)} :
        \A i, j \in 1..Len(k) : k[i] = k[j] => i = j}
RcRowsOf(k) ==
    {[i \in 1..Len(k) |-> Entry(k[i], f[i])] :
        f \in {g \in [1..Len(k) -> UNION {RcValues(key) : key \in RcKeys}] :
                 \A i \in 1..Len(k) : g[i] \in RcValues(k[i])}}
RcRows == UNION {RcRowsOf(k) : k \in RcKeySeqs}
RcRowSets == UNION {[1..n -> RcRows] : n \in 0..MaxRows}
RcStructures == {<<"id", "name">>, <<"id", "name", "extra">>, <<"name", "other">>, <<"other">>}

RcInit ==
    /\ rc_pc = "ready"
    /\ rc_input \in RcRowSets
    /\ rc_content = rc_input
    /\ rc_structure \in RcStructures
    /\ rc_once = <<>>

\* content = self.compare_content(table, content), a first and a second time.
\* After a KeyError, content still names the list, with the rows popped so far.
Reconcile ==
    /\ rc_pc \in {"ready", "once"}
    /\ \E compared \in compare_content_outcomes(RowSetValue(rc_content), rc_structure) :
           IF compared.raised # "none"
           THEN /\ rc_pc' = compared.raised
                /\ rc_content' = RowsOf(compared.content)
                /\ UNCHANGED rc_once
           ELSE /\ rc_content' = RowsOf(compared.content)
                /\ rc_pc' = IF rc_pc = "ready" THEN "once" ELSE "twice"
                /\ rc_once' = IF rc_pc = "ready" THEN RowsOf(compared.content) ELSE rc_once
    /\ UNCHANGED <<rc_input, rc_structure>>
    /\ UNCHANGED <<runvars, stvars>>

InitReconcile == RcInit /\ RunIdle /\ StIdle
SpecReconcile == InitReconcile /\ [][Reconcile]_vars

\* ------------------------------------------------- the record store alone
\* save_as_json, then load_json_file, on every RowSet of up to MaxRows rows of
\* one or two fields holding the values a cursor returns
StDateTimes ==
    {<<2024, 1, 2, 3, 4, 5>>, <<1999, 12, 31, 23, 59, 59>>, <<999, 11, 30, 12, 0, 7>>}
StValues ==
    {None, BoolVal(TRUE), BoolVal(FALSE), IntVal(7), StrVal("Ann"), FloatVal("1.5"),
     DateVal(<<2024, 1, 2>>)}
    \cup {DateTimeVal(d) : d \in StDateTimes}
StRows ==
    {<<>>} \cup {<<Entry("a", v)>> : v \in StValues}
    \cup {<<Entry("a", v), Entry("b", w)>> :
             v \in StValues, w \in {IntVal(7), DateTimeVal(<<1999, 12, 31, 23, 59, 59>>)}}
StRowSets == UNION {[1..n -> StRows] : n \in 0..MaxRows}

StInit ==
    /\ st_pc = "ready"
    /\ st_table \in TableNames
    /\ st_rows \in StRowSets
    /\ st_files \in {NoFiles, [NoFiles EXCEPT ![st_table] = Directory]}
    /\ st_loaded = None

\* self.save_as_json(table, rows)
Save ==
    /\ st_pc = "ready"
    /\ LET saved == save_as_json(st_files, st_table, st_rows)
       IN  IF saved.raised # "none"
           THEN st_pc' = saved.raised /\ UNCHANGED st_files
           ELSE st_pc' = "saved" /\ st_files' = saved.files
    /\ UNCHANGED <<st_table, st_rows, st_loaded>>
    /\ UNCHANGED <<runvars, rcvars>>

\* content = self.load_json_file(table)
Load ==
    /\ st_pc = "saved"
    /\ LET loaded == load_json_file(st_files, st_table)
       IN  IF loaded.raised # "none"
           THEN st_pc' = loaded.raised /\ UNCHANGED st_loaded
           ELSE st_pc' = "loaded" /\ st_loaded' = loaded.content
    /\ UNCHANGED <<st_table, st_rows, st_files>>
    /\ UNCHANGED <<runvars, rcvars>>

StNext == Save \/ Load

InitStore == StInit /\ RunIdle /\ RcIdle
SpecStore == InitStore /\ [][StNext]_vars

\* ================================================================ claims
Terminal == {"done", "exit", "raised"}
\* The names of the fields of a statement's quoted field list
FieldNames(field_list) == {field_list[i][2] : i \in 1..Len(field_list)}
\* The statements issued on the destination connection in turn i of the restore
DestStatements(i) ==
    SelectSeq(statements, LAMBDA st : st.conn = "dest" /\ st.ti = i)

\* C1: once compare_content has returned, the keys of the first row are columns
\* of the destination table, and every INSERT issued names only such columns.
C1_FieldSetWithinColumns ==
    /\ pc = "insert" =>
          SeqToSet(get_keys(RowSetValue(content), TRUE))
              \subseteq SeqToSet(dest_db[tables(config)[ti]].columns)
    /\ \A k \in 1..Len(statements) :
          statements[k].op = "INSERT" =>
              FieldNames(statements[k].args[1].fields)
                  \subseteq SeqToSet(dest_db[statements[k].args[1].table_name].columns)

\* C1 witness: a table whose artifact had a field the destination lacks is in
\* its insert loop, with an INSERT issued.
C1_Witness ==
    /\ pc = "insert"
    /\ ri > 1
    /\ \E k \in 1..Len(reports) : reports[k].ti = ti /\ reports[k].kind = "diff"
    /\ \E k \in 1..Len(statements) : statements[k].ti = ti /\ statements[k].op = "INSERT"

C2_Recovered == {"DataError", "IntegrityError"}
RECURSIVE C2_Stored(_)
C2_Stored(n) ==
    IF n = 0 THEN <<>>
    ELSE C2_Stored(n - 1) \o
         (IF results[n] = "ok"
          THEN <<StoredRow(Query(tables(config)[ti], fields), Values(content[n]))>>
          ELSE <<>>)
RECURSIVE C2_Reported(_)
C2_Reported(n) ==
    IF n = 0 THEN <<>>
    ELSE C2_Reported(n - 1) \o
         (IF results[n] \in C2_Recovered
          THEN <<Report(ti, results[n], Values(content[n])[1])>>
          ELSE <<>>)

\* C2: in the insert loop of a table, after any number of rows: each row was
\* either stored or failed with DataError or IntegrityError; the rows stored are
\* the others, in RowSet order; each failed row was reported exactly once, in
\* order; and neither error class ever ends the run.
C2_RowErrorsSkipped ==
    /\ pc = "raised" => error \notin C2_Recovered
    /\ pc = "insert" =>
          /\ Len(results) = ri - 1
          /\ \A k \in 1..Len(results) : results[k] \in {"ok"} \cup C2_Recovered
          /\ Pending(tables(config)[ti]) = C2_Stored(ri - 1)
          /\ SelectSeq(reports, LAMBDA r : r.ti = ti /\ r.kind \in C2_Recovered)
                = C2_Reported(ri - 1)

\* C2 witness: the loop over N >= 2 rows is over, one row failed with
\* IntegrityError and the N - 1 others are stored.
C2_Witness ==
    /\ pc = "insert"
    /\ ri > Len(content)
    /\ Len(content) >= 2
    /\ Cardinality({k \in 1..Len(results) : results[k] = "IntegrityError"}) = 1
    /\ Len(Pending(tables(config)[ti])) = Len(content) - 1

\* C3: the turn of a table with no artifact file ends skipped and goes to the
\* next table, with no statement issued and the destination unchanged.
C3_MissingArtifactSkips ==
    [][(/\ pc = "restore"
        /\ ti <= Len(tables(config))
        /\ files[tables(config)[ti]].kind # "file")
       => (/\ pc' = "restore"
           /\ ti' = ti + 1
           /\ outcomes' = Append(outcomes, "SKIPPED")
           /\ statements' = statements
           /\ dest_db' = dest_db
           /\ txn' = txn
           /\ fk_checks' = fk_checks)]_vars

\* C3 witness: a table that exists on the destination and has no artifact was
\* skipped with nothing issued for it, and the table after it was processed.
C3_Witness ==
    \E i \in 1..Len(outcomes) :
        /\ files[tables(config)[i]].kind = "missing"
        /\ dest_db[tables(config)[i]].exists
        /\ outcomes[i] = "SKIPPED"
        /\ DestStatements(i) = <<>>
        /\ Len(outcomes) > i

\* C4: a second compare_content with the same structure returns what the first
\* returned (and so the same field list).
C4_ReconcileIdempotent ==
    rc_pc = "twice" =>
        /\ rc_content = rc_once
        /\ get_keys(RowSetValue(rc_content), FALSE) = get_keys(RowSetValue(rc_once), FALSE)

\* C4 witness: compare_content ran twice on a RowSet it dropped a field from.
C4_Witness == rc_pc = "twice" /\ rc_once # rc_input

\* The text of the two timestamps the model draws
C5_Text(d) ==
    IF d = <<2024, 1, 2, 3, 4, 5>> THEN "2024-01-02 03:04:05"
    ELSE IF d = <<1999, 12, 31, 23, 59, 59>> THEN "1999-12-31 23:59:59"
    ELSE "0999-11-30 12:00:07"
C5_Supported(rows) ==
    \A i \in 1..Len(rows) : \A j \in 1..Len(rows[i]) :
        rows[i][j].v.t \in {"null", "bool", "int", "float", "str", "datetime"}
C5_Expected(rows) ==
    [i \in 1..Len(rows) |->
        [j \in 1..Len(rows[i]) |->
            Entry(rows[i][j].k,
                  IF rows[i][j].v.t = "datetime"
                  THEN StrVal(C5_Text(rows[i][j].v.v))
                  ELSE rows[i][j].v)]]

\* C5: load_json_file after save_as_json never fails, and for a RowSet of null,
\* boolean, integer, float, string and timestamp values it returns the same rows
\* in the same order with the same keys and values, each timestamp as its
\* 'YYYY-MM-DD HH:MM:SS' text (four digits of year, as in C5_Text).
C5_RoundTrip ==
    /\ st_pc # "JSONDecodeError"
    /\ (st_pc = "loaded" /\ C5_Supported(st_rows)) => st_loaded = RowSetValue(C5_Expected(st_rows))


\* The reconciled field list of table t is empty
C6_EmptyFieldList(t) ==
    /\ files[t].kind = "file"
    /\ dest_db[t].exists
    /\ loads(files[t].text).raised = "none"
    /\ compare_content(loads(files[t].text).content, dest_db[t].columns).raised = "none"
    /\ get_keys(compare_content(loads(files[t].text).content,
                                dest_db[t].columns).content, FALSE) = <<>>

\* C6: the turn of a table whose reconciled field list is empty ends skipped and
\* goes to the next table, with no foreign-key toggle and no INSERT issued.
C6_EmptyFieldListSkips ==
    [][(/\ pc = "restore"
        /\ ti <= Len(tables(config))
        /\ C6_EmptyFieldList(tables(config)[ti]))
       => (/\ pc' = "restore"
           /\ ti' = ti + 1
           /\ outcomes' = Append(outcomes, "SKIPPED")
           /\ fk_checks' = fk_checks
           /\ dest_db' = dest_db
           /\ txn' = txn
           /\ \A k \in (Len(statements) + 1)..Len(statements') :
                 statements'[k].op \notin {"SET foreign_key_checks = 0", "INSERT"})]_vars

\* C6 witness: a run with --backup and --restore saved a table of zero rows and
\* then skipped its restore as empty, and went on to the next table.
C6_Witness ==
    \E i \in 1..Len(outcomes) :
        /\ arguments.backup
        /\ src_db[tables(config)[i]].exists
        /\ src_db[tables(config)[i]].rows = <<>>
        /\ outcomes[i] = "SKIPPED"
        /\ \E k \in 1..Len(reports) :
              /\ reports[k].ti = i
              /\ reports[k].kind = "warning"
              /\ reports[k].what = "table is empty"
        /\ \A k \in 1..Len(statements) :
              statements[k].op \notin {"SET foreign_key_checks = 0", "INSERT"}
        /\ Len(outcomes) > i

C7_Problems ==
    {"An action is required. Either backup or restore.",
     "The destination directory doesn't exist",
     "The configuration file don't exists",
     "The configuration file is not a file",
     "NoSectionError: tables"}
    \cup (IF arguments.backup THEN {"KeyError: backup"} ELSE {})
    \cup (IF arguments.restore THEN {"KeyError: restore"} ELSE {})

\* C7: a run ended by a configuration or argument problem (no action flag, no
\* directory, no configuration file, no tables list, no section for a selected
\* side) has attempted no database connection.
C7_NoConnectionBeforeConfigError ==
    (pc \in {"exit", "raised"} /\ error \in C7_Problems) => connects = <<>>

\* C8: when the load of a table's artifact failed, the restore went on: once
\* the run is over, every later table has had its turn.
C8_LoadFailureSkipsTableOnly ==
    (pc \in Terminal /\ error = "JSONDecodeError") =>
        \A j \in 1..Len(tables(config)) : j > ti => j <= Len(outcomes)

\* C9: when the write of a table's artifact failed, the backup went on: once
\* the run is over, every later table has been queried.
C9_WriteFailureSkipsTableOnly ==
    (pc \in Terminal /\ error = "IsADirectoryError") =>
        \A j \in 1..Len(tables(config)) : j > ti =>
            \E k \in 1..Len(statements) :
                /\ statements[k].conn = "src"
                /\ statements[k].ti = j
                /\ statements[k].op = "SELECT"

\* C10: compare_content completes without error on every RowSet, also one whose
\* later rows lack a field of the first row that the destination lacks.
C10_ReconcileCompletes == rc_pc # "KeyError"

\* The value row holds for key, or None when the row has no such key
C11_ValueOf(row, key) ==
    IF \E j \in 1..Len(row) : row[j].k = key
    THEN row[CHOOSE j \in 1..Len(row) : row[j].k = key].v
    ELSE None
\* The INSERT statements issued so far for the table the loop is at
C11_Inserts == SelectSeq(DestStatements(ti), LAMBDA st : st.op = "INSERT")

\* C11: in the insert loop of a table, the INSERT issued for row k of the RowSet
\* has as many parameters as the statement has fields, and parameter i is the
\* value row k holds for field i of the field list.
C11_ParametersFollowFields ==
    pc \in {"insert", "raised"} =>
        \A k \in 1..Len(C11_Inserts) :
            LET query == C11_Inserts[k].args[1]
                value == C11_Inserts[k].args[2]
            IN  k <= Len(content) =>
                /\ Len(value) = Len(query.fields)
                /\ \A i \in 1..Len(query.fields) :
                      /\ i <= Len(value)
                      /\ \E j \in 1..Len(content[k]) :
                            content[k][j].k = query.fields[i][2]
                      /\ value[i] = C11_ValueOf(content[k], query.fields[i][2])

\* The fields compare_content removed from some row of its input
C12_Dropped ==
    UNION {KeySet(rc_input[k]) \ KeySet(rc_once[k]) :
              k \in 1..Len(rc_input) \cap 1..Len(rc_once)}

\* C12: what compare_content returns has the rows of its input in the same
\* order; each row returned is the input row without some of its fields, the
\* others in place with their values; no field that is a destination column is
\* removed; and a field removed from one row is in no row returned.
C12_ReconcileOnlyRemoves ==
    rc_pc \in {"once", "twice"} =>
        /\ Len(rc_once) = Len(rc_input)
        /\ \A k \in 1..Len(rc_once) :
              /\ rc_once[k] =
                    SelectSeq(rc_input[k], LAMBDA e : e.k \in KeySet(rc_once[k]))
              /\ \A j \in 1..Len(rc_input[k]) :
                    rc_input[k][j].k \in SeqToSet(rc_structure)
                        => rc_input[k][j].k \in KeySet(rc_once[k])
        /\ \A f \in C12_Dropped : \A k \in 1..Len(rc_once) : f \notin KeySet(rc_once[k])

\* C12 witness: compare_content returned a RowSet of two rows after removing
\* from both a field the destination lacks and keeping a field it has.
C12_Witness ==
    /\ rc_pc = "once"
    /\ Len(rc_input) = 2
    /\ "extra" \in C12_Dropped
    /\ \A k \in 1..2 : "extra" \in KeySet(rc_input[k]) /\ "id" \in KeySet(rc_once[k])
    /\ rc_input[1] # rc_input[2]

\* C13: the turn of a table whose artifact is a file and which the destination
\* lacks ends skipped and goes to the next table without ending the run: the
\* only statement issued is the SHOW TABLES unit of work, so no DESC and no
\* INSERT, and the artifact is not read (an unreadable one raises nothing).
C13_AbsentTableSkips ==
    [][(/\ pc = "restore"
        /\ ti <= Len(tables(config))
        /\ files[tables(config)[ti]].kind = "file"
        /\ ~dest_db[tables(config)[ti]].exists)
       => (/\ pc' = "restore"
           /\ error' = error
           /\ ti' = ti + 1
           /\ outcomes' = Append(outcomes, "SKIPPED")
           /\ statements' = statements \o
                 <<Stmt("dest", ti, "cursor"), Stmt("dest", ti, "SHOW TABLES"),
                   Stmt("dest", ti, "commit"), Stmt("dest", ti, "close")>>
           /\ dest_db' = dest_db
           /\ fk_checks' = fk_checks)]_vars

\* C13 witness: a table the destination lacks, whose artifact is a file that
\* does not parse, was skipped after SHOW TABLES alone, and the table after it
\* was processed.
C13_Witness ==
    \E i \in 1..Len(outcomes) :
        /\ files[tables(config)[i]].kind = "file"
        /\ loads(files[tables(config)[i]].text).raised # "none"
        /\ ~dest_db[tables(config)[i]].exists
        /\ outcomes[i] = "SKIPPED"
        /\ \A k \in 1..Len(DestStatements(i)) :
              DestStatements(i)[k].op \notin {"DESC", "INSERT"}
        /\ \E k \in 1..Len(reports) :
              reports[k].ti = i /\ reports[k].what = "table not found"
        /\ Len(outcomes) > i

\* What was done with the cursors of a connection, in order
C14_Cursors(conn) ==
    SelectSeq(statements,
              LAMBDA st : st.conn = conn /\ st.op \in {"cursor", "commit", "close"})
\* A with block of the connection is being run
C14_Inside(conn) ==
    IF conn = "src" THEN pc = "backup" ELSE pc = "insert"
C14_Step(k) == IF k % 3 = 1 THEN "cursor" ELSE IF k % 3 = 2 THEN "commit" ELSE "close"

\* C14: on each connection, every cursor obtained is followed by a commit and
\* then by its close before anything else is done with cursors, whether the
\* with block ended normally or by an exception; outside a with block no cursor
\* is open, and inside one exactly the block's own cursor is.
C14_CommitThenClose ==
    \A conn \in {"src", "dest"} :
        /\ \A k \in 1..Len(C14_Cursors(conn)) : C14_Cursors(conn)[k].op = C14_Step(k)
        /\ Len(C14_Cursors(conn)) % 3 = (IF C14_Inside(conn) THEN 1 ELSE 0)

\* C14 witness: an INSERT raised an error that ended the run, and the with
\* block of the insert batch was left with a commit and the close of its cursor.
C14_Witness ==
    /\ pc = "raised"
    /\ Len(statements) >= 4
    /\ statements[Len(statements) - 3].op = "INSERT"
    /\ statements[Len(statements) - 2].op = "INSERT"
    /\ statements[Len(statements) - 1] = Stmt("dest", ti, "commit")
    /\ statements[Len(statements)] = Stmt("dest", ti, "close")
    /\ Len(C14_Cursors("dest")) >= 9

\* C15: whenever the restore loop is between two tables, and so before the file
\* check of the next one, no inserted row is left uncommitted; and every INSERT
\* of a table is followed by a commit of that table's turn before the first
\* statement of a later table.
C15_BatchCommittedBeforeNextTable ==
    /\ pc = "restore" => txn = <<>>
    /\ \A k \in 1..Len(statements) :
          (statements[k].conn = "dest" /\ statements[k].op = "INSERT") =>
              \A l \in (k + 1)..Len(statements) :
                  (statements[l].conn = "dest" /\ statements[l].ti > statements[k].ti)
                  => \E m \in (k + 1)..(l - 1) :
                        statements[m] = Stmt("dest", statements[k].ti, "commit")

\* C15 witness: the first table's batch stored a row the destination did not
\* have (id 2), which is committed, and the turn of the second table has issued
\* its first statement.
C15_Witness ==
    /\ Len(outcomes) >= 1
    /\ outcomes[1] = "DONE"
    /\ \E k \in 1..Len(statements) :
          /\ statements[k].op = "INSERT"
          /\ statements[k].ti = 1
          /\ statements[k].args[2][1] = IntVal(2)
          /\ StoredRow(statements[k].args[1], statements[k].args[2])
                \in SeqToSet(dest_db[tables(config)[1]].rows)
    /\ \E l \in 1..Len(statements) :
          statements[l].conn = "dest" /\ statements[l].ti = 2
    /\ txn = <<>>

\* The rows of the batch whose INSERT failed with another class of error
C16_Fatal ==
    {k \in 1..Len(results) : results[k] \notin {"ok", "DataError", "IntegrityError"}}

\* C16: once an INSERT has failed with an error that is neither DataError nor
\* IntegrityError, the run has ended with that error: the failed INSERT is the
\* last one of the batch, the loop over the rows has not advanced, the table has
\* no outcome, and no statement of a later table was issued.
C16_OtherRowErrorEndsRun ==
    C16_Fatal # {} =>
        /\ pc = "raised"
        /\ C16_Fatal = {Len(results)}
        /\ error = results[Len(results)]
        /\ ri = Len(results)
        /\ Len(SelectSeq(DestStatements(ti), LAMBDA st : st.op = "INSERT")) = Len(results)
        /\ Len(outcomes) = ti - 1
        /\ \A k \in 1..Len(statements) : statements[k].ti <= ti

\* C16 witness: the first of two tables had the INSERT of its first row fail
\* with DatabaseError; the run ended there, with a second row that would have
\* been stored and a second table left.
C16_Witness ==
    /\ pc = "raised"
    /\ error = "DatabaseError"
    /\ ti = 1
    /\ Len(tables(config)) = 2
    /\ results = <<"DatabaseError">>
    /\ Len(content) = 2
    /\ Execute(Query(tables(config)[1], fields), Values(content[2])) = "ok"

\* The insert batch of turn i is over
C17_Over(i) == ~(pc = "insert" /\ ti = i)
\* The INSERT statements of turn i sit at these places of its statements
C17_Inserts(i) ==
    {k \in 1..Len(DestStatements(i)) : DestStatements(i)[k].op = "INSERT"}

\* C17: in every turn, each INSERT follows the SET foreign_key_checks = 0 of the
\* turn or another INSERT, and the SET follows the cursor of the batch; while
\* the batch runs foreign-key checking is off; each INSERT is followed by another
\* INSERT or by the commit and the close that end the turn, and once the batch
\* is over, on any path, no INSERT is left without that commit.
C17_DisabledBeforeCommittedAfter ==
    /\ pc = "insert" => ~fk_checks
    /\ \A i \in 1..Len(tables(config)) :
          With(DestStatements(i), LAMBDA s :
              \A k \in 1..Len(s) :
                  s[k].op = "INSERT" =>
                      /\ k >= 3
                      /\ \/ s[k - 1].op = "INSERT"
                         \/ /\ s[k - 1] = Stmt("dest", i, "SET foreign_key_checks = 0")
                            /\ s[k - 2] = Stmt("dest", i, "cursor")
                      /\ IF k = Len(s) THEN ~C17_Over(i)
                         ELSE \/ s[k + 1].op = "INSERT"
                              \/ /\ Len(s) = k + 2
                                 /\ s[k + 1] = Stmt("dest", i, "commit")
                                 /\ s[k + 2] = Stmt("dest", i, "close"))

\* C17 witness: a batch of two rows is over; its statements on the destination
\* end with cursor, SET, INSERT, INSERT, commit, close.
C17_Witness ==
    \E i \in 1..Len(outcomes) :
        /\ outcomes[i] = "DONE"
        /\ Cardinality(C17_Inserts(i)) = 2
        /\ Len(DestStatements(i)) >= 6
        /\ DestStatements(i)[Len(DestStatements(i)) - 4].op = "SET foreign_key_checks = 0"
        /\ DestStatements(i)[Len(DestStatements(i)) - 1].op = "commit"
        /\ ~fk_checks

\* C18: the restore takes the configured tables one at a time in their order:
\* the statements and the reports of the turns follow the order of the list,
\* the tables before the current one have each exactly one outcome, DONE or
\* SKIPPED, and no other table has one; a run that ends without an error has
\* given every configured table its outcome, whatever tables were skipped.
C18_OneTableAtATimeInOrder ==
    /\ \A k \in 1..Len(statements) :
          statements[k].conn = "dest" =>
              \A l \in (k + 1)..Len(statements) :
                  statements[l].conn = "dest" => statements[k].ti <= statements[l].ti
    /\ \A k \in 1..Len(reports) :
          \A l \in (k + 1)..Len(reports) : reports[k].ti <= reports[l].ti
    /\ \A k \in 1..Len(outcomes) : outcomes[k] \in {"DONE", "SKIPPED"}
    /\ Len(outcomes) <= Len(tables(config))
    /\ \A k \in 1..Len(statements) :
          statements[k].conn = "dest" =>
              /\ statements[k].ti <= Len(outcomes) + 1
              /\ statements[k].ti <= Len(tables(config))
    /\ pc \in {"restore", "insert"} => ti = Len(outcomes) + 1
    /\ pc = "insert" => ti <= Len(tables(config))
    /\ (pc = "done" /\ arguments.restore) => Len(outcomes) = Len(tables(config))

\* C18 witness: a run over two tables ended without an error; the first table
\* was skipped and the second restored.
C18_Witness ==
    /\ pc = "done"
    /\ Len(tables(config)) = 2
    /\ outcomes = <<"SKIPPED", "DONE">>
    /\ DestStatements(2) # <<>>

\* C19: no step of the run turns foreign-key checking on again once it is off,
\* so whatever is issued on the destination connection after the first batch's
\* SET runs with it off; and a step turns it off only by issuing that SET.
C19_ForeignKeyChecksStayOff ==
    [][/\ ~fk_checks => ~fk_checks'
       /\ (fk_checks /\ ~fk_checks') =>
             \E k \in (Len(statements) + 1)..Len(statements') :
                 statements'[k] = Stmt("dest", ti, "SET foreign_key_checks = 0")]_vars

\* C19 witness: after the batch of the first table, the second table was looked
\* for on the destination, not found and skipped, foreign-key checking still off.
C19_Witness ==
    /\ Len(outcomes) = 2
    /\ outcomes = <<"DONE", "SKIPPED">>
    /\ \E k \in 1..Len(DestStatements(2)) : DestStatements(2)[k].op = "SHOW TABLES"
    /\ \A k \in 1..Len(DestStatements(2)) :
          DestStatements(2)[k].op # "SET foreign_key_checks = 0"
    /\ ~fk_checks

\* A step of the restore has been taken: the loop over the tables was entered,
\* or something was issued on the destination, reported or decided for a table
C20_RestoreStarted ==
    \/ pc \in {"restore", "insert"}
    \/ outcomes # <<>>
    \/ reports # <<>>
    \/ \E k \in 1..Len(statements) : statements[k].conn = "dest"
\* The backup is complete: every configured table was queried and its artifact
\* holds the rows of the source, and the with block of the backup has ended
C20_BackupComplete ==
    /\ \A i \in 1..Len(tables(config)) :
          /\ \E k \in 1..Len(statements) : statements[k] = Stmt("src", i, "SELECT")
          /\ files[tables(config)[i]] = File(dumps(src_db[tables(config)[i]].rows))
    /\ \E k \in 1..Len(statements) : statements[k] = Stmt("src", 0, "close")

\* C20: in a run with --backup and --restore, no step of the restore is taken
\* before the backup is complete; a run whose backup ended with an error, and
\* is therefore not complete, takes no step of the restore at all.
C20_BackupBeforeRestore ==
    arguments.backup =>
        /\ C20_RestoreStarted => C20_BackupComplete
        /\ (pc = "raised" /\ ~C20_BackupComplete) => ~C20_RestoreStarted

\* C20 witness: a run with both flags backed up two tables with rows and then
\* restored both.
C20_Witness ==
    /\ arguments.backup
    /\ arguments.restore
    /\ pc = "done"
    /\ Len(tables(config)) = 2
    /\ tables(config)[1] # tables(config)[2]
    /\ \A i \in 1..2 : src_db[tables(config)[i]].rows # <<>>
    /\ outcomes = <<"DONE", "DONE">>
====
